---- MODULE Spec2Model ----
(***************************************************************************)
(* Model of src/app.py: a rate-limited proxy for Google Trends.            *)
(*                                                                         *)
(* The process-wide quota window (last_request_time, request_count) is     *)
(* shared by every request handler.  Handlers run on worker threads; each  *)
(* thread walks through rate_limit_check, the retry loop of get_trends and *)
(* the item loop of get_trends_batch one source statement at a time (the   *)
(* program counters are named after the source lines of src/app.py).       *)
(*                                                                         *)
(* Time is counted in ticks of 1/Resolution second, so that the float      *)
(* clock difference of the source and its int() truncation are visible.    *)
(*                                                                         *)
(* Spec      one handler at a time (non-overlapping requests)              *)
(* SpecConc  several threads inside rate_limit_check at once, every read   *)
(*           and write of a global a separate step (no lock in the source) *)
(***************************************************************************)
EXTENDS Integers, Sequences, FiniteSets, TLC

\* ------------------------------------------------------------ constants
\* Program constants (src/app.py).
REQUESTS_PER_HOUR == 60
WindowSeconds == 3600
AdmitDelayMin == 3
AdmitDelayMax == 6
ThrottleCooldown == 30
ErrorBackoff == 5
PacingMin == 8
PacingMax == 15
max_retries == 3
BatchLimit == 3

\* Bounds of the model.
Resolution == 2        \* clock ticks per second
NumThreads == 2        \* worker threads of SpecConc
MaxErrors == 3         \* failed fetcher invocations within one handler invocation
MaxSeriesLen == 8      \* longest series of SeriesSpace
StartBelow == 2        \* initial request_count may be this close under the limit
StartLead == 1         \* initial clock is this many ticks before the window ends
ClockSlack == 1        \* requests arrive until this many ticks after the window ended

Threads == 1 .. NumThreads
SeqThreads == {1}

Secs(n) == n * Resolution
WindowDuration == Secs(WindowSeconds)
MaxClock == WindowDuration + ClockSlack

VARIABLES
  now,                \* the wall clock, datetime.now()
  last_request_time,  \* global, line 19
  request_count,      \* global, line 20
  pc,                 \* per thread: the source line it is about to execute
  current_time,       \* per thread: local of its last rate_limit_check
  time_diff,          \* per thread: local of its last rate_limit_check
  wait_time,          \* per thread: local of its last rate_limit_check
  loaded,             \* per thread: value of request_count read by line 40
  handler,            \* per thread: "none", "trends" or "batch"
  keyword,            \* per thread: argument of the running get_trends
  attempt,            \* per thread: loop variable of get_trends
  ret,                \* per thread: how the last call on the stack ended
  keyword_list,       \* per thread: local of get_trends_batch
  idx,                \* per thread: loop variable i of get_trends_batch
  results,            \* per thread: local of get_trends_batch
  keywords,           \* per thread: argument of get_trends_batch, split at its commas
  response,           \* per thread: what the caller of the handler received
  \* history variables (not read by the program)
  didReset,           \* per thread: its last rate_limit_check executed line 30
  entry,              \* per thread: the quota window as its last rate_limit_check found it
  rejected,           \* per thread: its last rate_limit_check raised (line 35)
  allowedInWindow,    \* rate_limit_check calls that passed line 40 since the last reset
  rejectedInWindow,   \* some rate_limit_check call was rejected since the last reset
  fetchesInWindow,    \* fetcher invocations since the last reset
  fetchLog,           \* per thread: outcomes of the fetcher invocations of the running get_trends
  sleepLog,           \* per thread: time.sleep calls of the retry loop of the running get_trends
  lastFetch,          \* per thread: how the last fetcher invocation ended
  started,            \* per thread: get_trends calls made by the running handler
  failures,           \* per thread: fetcher invocations that failed in the running handler
  pacing              \* per thread: loop positions after which the batch slept

quotaVars == << last_request_time, request_count >>
rlVars == << current_time, time_diff, wait_time, loaded, didReset, entry, rejected >>
windowHist == << allowedInWindow, rejectedInWindow, fetchesInWindow >>
gtVars == << keyword, attempt, fetchLog, sleepLog, lastFetch >>
batchVars == << keywords, keyword_list, idx, results, pacing >>
reqVars == << handler, response, started, failures >>

vars == << now, quotaVars, pc, rlVars, windowHist, gtVars, ret, batchVars, reqVars >>

\* ------------------------------------------------------------ values
\* A message is a sequence of words; an interpolated number is kept apart.
Detail(text, args) == [text |-> text, args |-> args]
NoDetail == Detail(<< >>, << >>)

NoRet == [kind |-> "none", status |-> 0, detail |-> NoDetail, value |-> << >>]
NoResponse == [kind |-> "none", status |-> 0, detail |-> NoDetail, body |-> << >>]
NoEntry == [count |-> 0, start |-> 0]
NoFetch == [kind |-> "none", series |-> << >>, msg |-> << >>]

\* raise HTTPException(status_code=s, detail=d)
HTTPException(s, d) == [kind |-> "raise", status |-> s, detail |-> d, value |-> << >>]
Return(v) == [kind |-> "return", status |-> 0, detail |-> NoDetail, value |-> v]

\* What the caller of a handler receives: the value returned (HTTP 200) or the
\* HTTPException raised (its status code and detail).
Respond(r) ==
  IF r.kind = "raise"
  THEN [kind |-> "error", status |-> r.status, detail |-> r.detail, body |-> << >>]
  ELSE [kind |-> "ok", status |-> 200, detail |-> NoDetail, body |-> r.value]

\* int(x) of a duration x given in ticks: whole seconds, truncated toward zero
IntSeconds(x) == IF x >= 0 THEN x \div Resolution ELSE -((-x) \div Resolution)

\* line 37: f"Rate limit: wait {int(wait_time)}s"
RateLimitText == << "Rate limit: wait {}s" >>
RateLimitDetail(w) == Detail(RateLimitText, << IntSeconds(w) >>)

\* random.uniform(lo, hi), in ticks: the model draws the two ends of the range
Uniform(lo, hi) == {Secs(lo), Secs(hi)}

\* ------------------------------------------------------------ initial state
StartCounts == {0} \cup ((REQUESTS_PER_HOUR - StartBelow) .. REQUESTS_PER_HOUR)

\* The clock when the model picks the process up: shortly before the first
\* window ends, or early enough for a second batch item to fall into that window.
LateStart == WindowDuration - StartLead
EarlyStart == WindowDuration - Secs(AdmitDelayMax + PacingMax)
StartClocks == {EarlyStart, LateStart}

\* The process started at time 0 (lines 19-20) and has since admitted c requests,
\* one after the other.
Init ==
  /\ now \in StartClocks
  /\ last_request_time = 0
  /\ request_count \in StartCounts
  /\ pc = [t \in Threads |-> "idle"]
  /\ current_time = [t \in Threads |-> 0]
  /\ time_diff = [t \in Threads |-> 0]
  /\ wait_time = [t \in Threads |-> 0]
  /\ loaded = [t \in Threads |-> 0]
  /\ handler = [t \in Threads |-> "none"]
  /\ keyword = [t \in Threads |-> ""]
  /\ attempt = [t \in Threads |-> 0]
  /\ ret = [t \in Threads |-> NoRet]
  /\ keywords = [t \in Threads |-> << >>]
  /\ keyword_list = [t \in Threads |-> << >>]
  /\ idx = [t \in Threads |-> 0]
  /\ results = [t \in Threads |-> << >>]
  /\ response = [t \in Threads |-> NoResponse]
  /\ didReset = [t \in Threads |-> FALSE]
  /\ entry = [t \in Threads |-> NoEntry]
  /\ rejected = [t \in Threads |-> FALSE]
  /\ allowedInWindow = request_count
  /\ rejectedInWindow = FALSE
  /\ fetchesInWindow = max_retries * request_count
  /\ fetchLog = [t \in Threads |-> << >>]
  /\ sleepLog = [t \in Threads |-> << >>]
  /\ lastFetch = [t \in Threads |-> NoFetch]
  /\ started = [t \in Threads |-> 0]
  /\ failures = [t \in Threads |-> 0]
  /\ pacing = [t \in Threads |-> << >>]

\* ------------------------------------------------------------ the clock
\* Time passes between requests; the model follows it tick by tick around the
\* end of the first window.
Tick ==
  /\ \E t \in Threads : pc[t] = "idle"
  /\ now >= LateStart
  /\ now < MaxClock
  /\ now' = now + 1
  /\ UNCHANGED << quotaVars, pc, rlVars, windowHist, gtVars, ret, batchVars, reqVars >>

\* ------------------------------------------------------------ rate_limit_check
\* A fresh frame of rate_limit_check.
DropLocals(t) ==
  /\ current_time' = [current_time EXCEPT ![t] = 0]
  /\ time_diff' = [time_diff EXCEPT ![t] = 0]
  /\ wait_time' = [wait_time EXCEPT ![t] = 0]
  /\ loaded' = [loaded EXCEPT ![t] = 0]
  /\ didReset' = [didReset EXCEPT ![t] = FALSE]
  /\ entry' = [entry EXCEPT ![t] = NoEntry]
  /\ rejected' = [rejected EXCEPT ![t] = FALSE]

\* What no step of rate_limit_check touches.
RlFrame == UNCHANGED << gtVars, batchVars, reqVars >>

\* line 26: current_time = datetime.now()
L26(t) ==
  /\ pc[t] = "L26"
  /\ current_time' = [current_time EXCEPT ![t] = now]
  /\ entry' = [entry EXCEPT ![t] = [count |-> request_count, start |-> last_request_time]]
  /\ pc' = [pc EXCEPT ![t] = "L27"]
  /\ UNCHANGED << now, quotaVars, time_diff, wait_time, loaded, didReset, rejected,
                  windowHist, ret >>
  /\ RlFrame

\* line 27: time_diff = (current_time - last_request_time).total_seconds()
L27(t) ==
  /\ pc[t] = "L27"
  /\ time_diff' = [time_diff EXCEPT ![t] = current_time[t] - last_request_time]
  /\ pc' = [pc EXCEPT ![t] = "L29"]
  /\ UNCHANGED << now, quotaVars, current_time, wait_time, loaded, didReset, entry,
                  rejected, windowHist, ret >>
  /\ RlFrame

\* line 29: if time_diff > 3600
WindowElapsedAtBoundary(d) == d >= WindowDuration
WindowElapsed(d) == d > WindowDuration

L29(t) ==
  /\ pc[t] = "L29"
  /\ pc' = [pc EXCEPT ![t] = IF WindowElapsed(time_diff[t]) THEN "L30" ELSE "L33"]
  /\ UNCHANGED << now, quotaVars, rlVars, windowHist, ret >>
  /\ RlFrame

\* line 30: request_count = 0
L30(t) ==
  /\ pc[t] = "L30"
  /\ request_count' = 0
  /\ didReset' = [didReset EXCEPT ![t] = TRUE]
  /\ allowedInWindow' = 0
  /\ rejectedInWindow' = FALSE
  /\ fetchesInWindow' = 0
  /\ pc' = [pc EXCEPT ![t] = "L31"]
  /\ UNCHANGED << now, last_request_time, current_time, time_diff, wait_time, loaded,
                  entry, rejected, ret >>
  /\ RlFrame

\* line 31: last_request_time = current_time
L31(t) ==
  /\ pc[t] = "L31"
  /\ last_request_time' = current_time[t]
  /\ pc' = [pc EXCEPT ![t] = "L33"]
  /\ UNCHANGED << now, request_count, rlVars, windowHist, ret >>
  /\ RlFrame

\* line 33: if request_count >= REQUESTS_PER_HOUR
QuotaExhaustedOffByOne(c) == c > REQUESTS_PER_HOUR
QuotaExhausted(c) == c >= REQUESTS_PER_HOUR

L33(t) ==
  /\ pc[t] = "L33"
  /\ pc' = [pc EXCEPT ![t] = IF QuotaExhausted(request_count) THEN "L34" ELSE "L40"]
  /\ UNCHANGED << now, quotaVars, rlVars, windowHist, ret >>
  /\ RlFrame

\* line 34: wait_time = 3600 - time_diff
WaitTimeSwapped(d) == d - WindowDuration
WaitTime(d) == WindowDuration - d

\* lines 34-38: raise HTTPException(429, f"Rate limit: wait {int(wait_time)}s")
L34(t) ==
  /\ pc[t] = "L34"
  /\ wait_time' = [wait_time EXCEPT ![t] = WaitTime(time_diff[t])]
  /\ ret' = [ret EXCEPT ![t] = HTTPException(429, RateLimitDetail(WaitTime(time_diff[t])))]
  /\ rejected' = [rejected EXCEPT ![t] = TRUE]
  /\ rejectedInWindow' = TRUE
  /\ pc' = [pc EXCEPT ![t] = "rl_end"]
  /\ UNCHANGED << now, quotaVars, current_time, time_diff, loaded, didReset, entry,
                  allowedInWindow, fetchesInWindow >>
  /\ RlFrame

\* line 40, first half: read request_count
L40(t) ==
  /\ pc[t] = "L40"
  /\ loaded' = [loaded EXCEPT ![t] = request_count]
  /\ pc' = [pc EXCEPT ![t] = "L40w"]
  /\ UNCHANGED << now, quotaVars, current_time, time_diff, wait_time, didReset, entry,
                  rejected, windowHist, ret >>
  /\ RlFrame

\* line 40: request_count += 1
IncrementLost(c) == c
IncrementTwice(c) == c + 2
Increment(c) == c + 1

\* line 40, second half: write request_count
L40w(t) ==
  /\ pc[t] = "L40w"
  /\ request_count' = Increment(loaded[t])
  /\ allowedInWindow' = allowedInWindow + 1
  /\ pc' = [pc EXCEPT ![t] = "L41"]
  /\ UNCHANGED << now, last_request_time, rlVars, rejectedInWindow, fetchesInWindow,
                  ret >>
  /\ RlFrame

\* line 41: time.sleep(random.uniform(3, 6)), then return
L41(t) ==
  /\ pc[t] = "L41"
  /\ \E d \in Uniform(AdmitDelayMin, AdmitDelayMax) : now' = now + d
  /\ ret' = [ret EXCEPT ![t] = Return(<< >>)]
  /\ pc' = [pc EXCEPT ![t] = "rl_end"]
  /\ UNCHANGED << quotaVars, rlVars, windowHist >>
  /\ RlFrame

rate_limit_check(t) ==
  \/ L26(t) \/ L27(t) \/ L29(t) \/ L30(t) \/ L31(t)
  \/ L33(t) \/ L34(t) \/ L40(t) \/ L40w(t) \/ L41(t)

\* ------------------------------------------------------------ the upstream fetcher
\* pytrends raises with a message (a sequence of words), returns an empty frame
\* (or one without the keyword's column), or returns the keyword's series.
ErrorMessages ==
  { << "code", "429" >>, << "Quota", "exceeded" >>,
    << "read", "timed", "out" >>, << "connection", "reset" >> }

SeriesInputs ==
  { << 10, 20, 30 >> }

FetchOutcomes ==
  { [kind |-> "data", series |-> s, msg |-> << >>] : s \in SeriesInputs }
    \cup { [kind |-> "empty", series |-> << >>, msg |-> << >>] }
    \cup { [kind |-> "error", series |-> << >>, msg |-> m] : m \in ErrorMessages }

\* str.lower() of a word
Lower(w) == IF w = "Quota" THEN "quota" ELSE w

\* line 104: "429" in error_msg or "quota" in error_msg.lower()
IsThrottled(msg) ==
  \/ \E i \in 1 .. Len(msg) : msg[i] = "429"
  \/ \E i \in 1 .. Len(msg) : Lower(msg[i]) = "quota"

\* What the retry loop makes of one fetcher invocation.
Classify(o) ==
  IF o.kind = "error"
  THEN (IF IsThrottled(o.msg) THEN "throttled" ELSE "transient")
  ELSE o.kind

\* ------------------------------------------------------------ the series analysis
RECURSIVE Sum(_)
Sum(s) == IF s = << >> THEN 0 ELSE Head(s) + Sum(Tail(s))

RECURSIVE Max(_)
Max(s) == IF Len(s) = 1 THEN s[1]
          ELSE LET m == Max(Tail(s)) IN IF s[1] >= m THEN s[1] ELSE m

\* data[-n:] for n <= len(data)
LastN(s, n) == SubSeq(s, Len(s) - n + 1, Len(s))

\* lines 79-90.  recent_avg = sum(data[-4:]) / 4 and previous_avg =
\* sum(data[-8:-4]) / 4; for sums of integers in 0..100 the float comparisons
\* recent_avg > previous_avg * 1.2 and recent_avg < previous_avg * 0.8 agree with
\* the exact ones 5 * recent > 6 * previous and 5 * recent < 4 * previous.
TrendDirectionInclusive(data) ==
  IF Len(data) >= 8
  THEN LET recent == Sum(LastN(data, 4))
           previous == Sum(SubSeq(data, Len(data) - 7, Len(data) - 4))
       IN  IF 5 * recent >= 6 * previous THEN "rising"
           ELSE IF 5 * recent <= 4 * previous THEN "falling"
           ELSE "stable"
  ELSE "insufficient_data"
TrendDirection(data) ==
  IF Len(data) >= 8
  THEN LET recent == Sum(LastN(data, 4))
           previous == Sum(SubSeq(data, Len(data) - 7, Len(data) - 4))
       IN  IF 5 * recent > 6 * previous THEN "rising"
           ELSE IF 5 * recent < 4 * previous THEN "falling"
           ELSE "stable"
  ELSE "insufficient_data"

\* lines 65-72
NoDataResult(kw) ==
  [keyword |-> kw, current_score |-> 0, average_score |-> 0,
   trend_direction |-> "no_data", peak_score |-> 0, data_points |-> << >>]

\* lines 74-99
AnalyzeRoundedUp(kw, data) ==
  [keyword |-> kw,
   current_score |-> IF data = << >> THEN 0 ELSE data[Len(data)],
   average_score |-> IF data = << >> THEN 0 ELSE (Sum(data) + Len(data) - 1) \div Len(data),
   trend_direction |-> TrendDirection(data),
   peak_score |-> IF data = << >> THEN 0 ELSE Max(data),
   data_points |-> data]
Analyze(kw, data) ==
  [keyword |-> kw,
   current_score |-> IF data = << >> THEN 0 ELSE data[Len(data)],
   average_score |-> IF data = << >> THEN 0 ELSE Sum(data) \div Len(data),
   trend_direction |-> TrendDirection(data),
   peak_score |-> IF data = << >> THEN 0 ELSE Max(data),
   data_points |-> data]

\* A function that ends without a return statement returns None.
NoneResult ==
  [keyword |-> "", current_score |-> 0, average_score |-> 0,
   trend_direction |-> "None", peak_score |-> 0, data_points |-> << >>]

\* ------------------------------------------------------------ get_trends
\* The call get_trends(keyword=kw): a fresh frame, then line 53.
EnterGetTrends(t, kw) ==
  /\ keyword' = [keyword EXCEPT ![t] = kw]
  /\ attempt' = [attempt EXCEPT ![t] = 0]
  /\ fetchLog' = [fetchLog EXCEPT ![t] = << >>]
  /\ sleepLog' = [sleepLog EXCEPT ![t] = << >>]
  /\ lastFetch' = [lastFetch EXCEPT ![t] = NoFetch]
  /\ ret' = [ret EXCEPT ![t] = NoRet]
  /\ started' = [started EXCEPT ![t] = @ + 1]
  /\ DropLocals(t)
  /\ pc' = [pc EXCEPT ![t] = "L26"]

Keywords == { "a" }

\* GET /trends?keyword=kw
StartTrends(t, kw) ==
  /\ pc[t] = "idle"
  /\ now <= MaxClock
  /\ handler' = [handler EXCEPT ![t] = "trends"]
  /\ EnterGetTrends(t, kw)
  /\ UNCHANGED << now, quotaVars, windowHist, batchVars, response, failures >>

\* line 53: an HTTPException of rate_limit_check() leaves get_trends too
AfterAdmissionSwallowed(r) == "L56"
AfterAdmission(r) == IF r.kind = "raise" THEN "gt_end" ELSE "L56"

L53(t) ==
  /\ pc[t] = "rl_end"
  /\ pc' = [pc EXCEPT ![t] = AfterAdmission(ret[t])]
  /\ UNCHANGED << now, quotaVars, rlVars, windowHist, gtVars, ret, batchVars, reqVars >>

\* line 56: for attempt in range(max_retries); with the range used up the
\* function ends
L56(t) ==
  /\ pc[t] = "L56"
  /\ IF attempt[t] < max_retries
     THEN /\ pc' = [pc EXCEPT ![t] = "L57"]
          /\ ret' = ret
     ELSE /\ pc' = [pc EXCEPT ![t] = "gt_end"]
          /\ ret' = [ret EXCEPT ![t] = Return(NoneResult)]
  /\ UNCHANGED << now, quotaVars, rlVars, windowHist, gtVars, batchVars, reqVars >>

\* lines 105 and 113: if attempt < max_retries - 1
MayRetryAlways(a) == TRUE
MayRetry(a) == a < max_retries - 1

\* lines 57-117: what one pass of the loop body ends in
LoopDecisionRetryEmpty(o, a) ==
  IF o.kind = "data" THEN "return"
  ELSE IF MayRetry(a) THEN "continue"
  ELSE IF o.kind = "empty" THEN "return" ELSE "raise"
LoopDecision(o, a) ==
  IF o.kind \in {"data", "empty"} THEN "return"
  ELSE IF MayRetry(a) THEN "continue" ELSE "raise"

\* lines 106 and 114: the sleep before attempt a + 1
CooldownGrowing(kind, a) ==
  (a + 1) * (IF kind = "throttled" THEN Secs(ThrottleCooldown) ELSE Secs(ErrorBackoff))
CooldownSwapped(kind, a) ==
  IF kind = "throttled" THEN Secs(ErrorBackoff) ELSE Secs(ThrottleCooldown)
Cooldown(kind, a) ==
  IF kind = "throttled" THEN Secs(ThrottleCooldown) ELSE Secs(ErrorBackoff)

\* lines 108-111 and 117: the failure raised after the last attempt
UpstreamText == << "Google Trends rate limit. Try again later." >>
ExhaustedUnavailable(kind, msg) == HTTPException(500, Detail(msg, << >>))
Exhausted(kind, msg) ==
  IF kind = "throttled"
  THEN HTTPException(429, Detail(UpstreamText, << >>))
  ELSE HTTPException(500, Detail(msg, << >>))

\* lines 64-99: the value returned for what the fetcher delivered
ResultAnalyzeEmpty(kw, o) == Analyze(kw, o.series)
Result(kw, o) == IF o.kind = "empty" THEN NoDataResult(kw) ELSE Analyze(kw, o.series)

\* lines 57-117: one pass of the loop body, with the fetcher ending as o
L57(t, o) ==
  /\ pc[t] = "L57"
  /\ o.kind = "error" => failures[t] < MaxErrors
  /\ failures' = [failures EXCEPT ![t] = IF o.kind = "error" THEN @ + 1 ELSE @]
  /\ fetchLog' = [fetchLog EXCEPT ![t] = Append(@, Classify(o))]
  /\ lastFetch' = [lastFetch EXCEPT ![t] = o]
  /\ fetchesInWindow' = fetchesInWindow + 1
  /\ CASE LoopDecision(o, attempt[t]) = "return" ->
            /\ ret' = [ret EXCEPT ![t] = Return(Result(keyword[t], o))]
            /\ pc' = [pc EXCEPT ![t] = "gt_end"]
            /\ UNCHANGED << now, attempt, sleepLog >>
       [] LoopDecision(o, attempt[t]) = "continue" ->
            /\ now' = now + Cooldown(Classify(o), attempt[t])
            /\ sleepLog' = [sleepLog EXCEPT ![t] =
                 Append(@, [after |-> attempt[t], ticks |-> Cooldown(Classify(o), attempt[t])])]
            /\ attempt' = [attempt EXCEPT ![t] = @ + 1]
            /\ pc' = [pc EXCEPT ![t] = "L56"]
            /\ ret' = ret
       [] LoopDecision(o, attempt[t]) = "raise" ->
            /\ ret' = [ret EXCEPT ![t] = Exhausted(Classify(o), o.msg)]
            /\ pc' = [pc EXCEPT ![t] = "gt_end"]
            /\ UNCHANGED << now, attempt, sleepLog >>
  /\ UNCHANGED << quotaVars, rlVars, allowedInWindow, rejectedInWindow, keyword,
                  batchVars, handler, response, started >>

\* The frame of a get_trends call that returned is gone.
LeaveGetTrends(t) ==
  /\ keyword' = [keyword EXCEPT ![t] = ""]
  /\ attempt' = [attempt EXCEPT ![t] = 0]
  /\ fetchLog' = [fetchLog EXCEPT ![t] = << >>]
  /\ sleepLog' = [sleepLog EXCEPT ![t] = << >>]
  /\ lastFetch' = [lastFetch EXCEPT ![t] = NoFetch]
  /\ ret' = [ret EXCEPT ![t] = NoRet]
  /\ DropLocals(t)

\* GET /trends answers with what get_trends returned or raised
TrendsRespond(t) ==
  /\ pc[t] = "gt_end"
  /\ handler[t] = "trends"
  /\ response' = [response EXCEPT ![t] = Respond(ret[t])]
  /\ pc' = [pc EXCEPT ![t] = "done"]
  /\ UNCHANGED << now, quotaVars, rlVars, windowHist, gtVars, ret, batchVars, handler,
                  started, failures >>

\* ------------------------------------------------------------ get_trends_batch
\* str.strip() of a keyword
Strip(k) == IF k = " b" THEN "b" ELSE IF k = "c " THEN "c" ELSE k

\* keywords.split(",")[:3]
TruncateNone(ks) == ks
Truncate(ks) == SubSeq(ks, 1, IF Len(ks) < BatchLimit THEN Len(ks) ELSE BatchLimit)

\* line 121: [k.strip() for k in keywords.split(",")[:3]]
KeywordList(ks) == [i \in 1 .. Len(Truncate(ks)) |-> Strip(Truncate(ks)[i])]

\* The query parameter keywords, already split at its commas.
BatchInputs ==
  { << "a" >>, << "a", " b" >>, << " b", "a", "c ", "d" >> }

\* GET /trends/batch?keywords=ks, lines 121-122
StartBatch(t, ks) ==
  /\ pc[t] = "idle"
  /\ now <= MaxClock
  /\ handler' = [handler EXCEPT ![t] = "batch"]
  /\ keywords' = [keywords EXCEPT ![t] = ks]
  /\ keyword_list' = [keyword_list EXCEPT ![t] = KeywordList(ks)]
  /\ results' = [results EXCEPT ![t] = << >>]
  /\ idx' = [idx EXCEPT ![t] = 0]
  /\ pacing' = [pacing EXCEPT ![t] = << >>]
  /\ pc' = [pc EXCEPT ![t] = "L124"]
  /\ UNCHANGED << now, quotaVars, rlVars, windowHist, gtVars, ret, response, started,
                  failures >>

\* lines 145-150
FullResult(rs, kl) ==
  [results |-> rs, partial |-> FALSE, completed |-> Len(rs), total |-> Len(kl),
   failed_on |-> << >>, error |-> << >>]

\* lines 135-142
PartialResultCountsAll(rs, kl, kw) ==
  [results |-> rs, partial |-> TRUE, completed |-> Len(kl), total |-> Len(kl),
   failed_on |-> << kw >>, error |-> << "Rate limited - partial results" >>]
PartialResult(rs, kl, kw) ==
  [results |-> rs, partial |-> TRUE, completed |-> Len(rs), total |-> Len(kl),
   failed_on |-> << kw >>, error |-> << "Rate limited - partial results" >>]

\* lines 124-126: the next keyword's get_trends call
L124(t) ==
  /\ pc[t] = "L124"
  /\ idx[t] < Len(keyword_list[t])
  /\ EnterGetTrends(t, keyword_list[t][idx[t] + 1])
  /\ UNCHANGED << now, quotaVars, windowHist, batchVars, handler, response, failures >>

\* line 130: if i < len(keyword_list) - 1
MorePendingAlways(i, kl) == i < Len(kl)
MorePending(i, kl) == i < Len(kl) - 1

\* lines 127-131: the call returned; keep the result, pace, next keyword
L127(t) ==
  /\ pc[t] = "gt_end"
  /\ handler[t] = "batch"
  /\ ret[t].kind = "return"
  /\ results' = [results EXCEPT ![t] = Append(@, ret[t].value)]
  /\ IF MorePending(idx[t], keyword_list[t])
     THEN /\ \E d \in Uniform(PacingMin, PacingMax) : now' = now + d
          /\ pacing' = [pacing EXCEPT ![t] = Append(@, idx[t])]
     ELSE UNCHANGED << now, pacing >>
  /\ idx' = [idx EXCEPT ![t] = @ + 1]
  /\ pc' = [pc EXCEPT ![t] = "L124"]
  /\ LeaveGetTrends(t)
  /\ UNCHANGED << quotaVars, windowHist, keywords, keyword_list, reqVars >>

\* line 134: if e.status_code == 429
IsRateLimitOrWorse(r) == r.status >= 429
IsRateLimit(r) == r.status = 429

\* lines 133-143: the call raised; a 429 ends the batch with what it has,
\* anything else is raised again
L133(t) ==
  /\ pc[t] = "gt_end"
  /\ handler[t] = "batch"
  /\ ret[t].kind = "raise"
  /\ response' = [response EXCEPT ![t] =
        IF IsRateLimit(ret[t])
        THEN Respond(Return(PartialResult(results[t], keyword_list[t], keyword[t])))
        ELSE Respond(ret[t])]
  /\ pc' = [pc EXCEPT ![t] = "done"]
  /\ UNCHANGED << now, quotaVars, rlVars, windowHist, gtVars, ret, batchVars, handler,
                  started, failures >>

\* lines 145-150: the loop is over
L145(t) ==
  /\ pc[t] = "L124"
  /\ ~(idx[t] < Len(keyword_list[t]))
  /\ response' = [response EXCEPT ![t] =
        Respond(Return(FullResult(results[t], keyword_list[t])))]
  /\ pc' = [pc EXCEPT ![t] = "done"]
  /\ UNCHANGED << now, quotaVars, rlVars, windowHist, gtVars, ret, batchVars, handler,
                  started, failures >>

\* ------------------------------------------------------------ home and health
\* lines 45-49
HomePayload(c) ==
  [status |-> "running", requests_used |-> c, requests_remaining |-> REQUESTS_PER_HOUR - c]

\* lines 154-158
HealthPayload(c) ==
  [status |-> "healthy", requests_used |-> c, limit |-> REQUESTS_PER_HOUR]

\* GET /, lines 43-49
HomeCounting(t) ==
  /\ pc[t] = "idle"
  /\ handler' = [handler EXCEPT ![t] = "home"]
  /\ request_count' = request_count + 1
  /\ response' = [response EXCEPT ![t] = Respond(Return(HomePayload(request_count)))]
  /\ pc' = [pc EXCEPT ![t] = "done"]
  /\ UNCHANGED << now, last_request_time, rlVars, windowHist, gtVars, ret, batchVars,
                  started, failures >>
home(t) ==
  /\ pc[t] = "idle"
  /\ handler' = [handler EXCEPT ![t] = "home"]
  /\ response' = [response EXCEPT ![t] = Respond(Return(HomePayload(request_count)))]
  /\ pc' = [pc EXCEPT ![t] = "done"]
  /\ UNCHANGED << now, quotaVars, rlVars, windowHist, gtVars, ret, batchVars, started,
                  failures >>

\* GET /health, lines 152-158
health(t) ==
  /\ pc[t] = "idle"
  /\ handler' = [handler EXCEPT ![t] = "health"]
  /\ response' = [response EXCEPT ![t] = Respond(Return(HealthPayload(request_count)))]
  /\ pc' = [pc EXCEPT ![t] = "done"]
  /\ UNCHANGED << now, quotaVars, rlVars, windowHist, gtVars, ret, batchVars, started,
                  failures >>

\* ------------------------------------------------------------ the end of a request
\* The response is sent and the handler's frame is gone.
Finish(t) ==
  /\ pc[t] = "done"
  /\ pc' = [pc EXCEPT ![t] = "idle"]
  /\ handler' = [handler EXCEPT ![t] = "none"]
  /\ LeaveGetTrends(t)
  /\ keywords' = [keywords EXCEPT ![t] = << >>]
  /\ keyword_list' = [keyword_list EXCEPT ![t] = << >>]
  /\ idx' = [idx EXCEPT ![t] = 0]
  /\ results' = [results EXCEPT ![t] = << >>]
  /\ pacing' = [pacing EXCEPT ![t] = << >>]
  /\ started' = [started EXCEPT ![t] = 0]
  /\ failures' = [failures EXCEPT ![t] = 0]
  /\ response' = [response EXCEPT ![t] = NoResponse]
  /\ UNCHANGED << now, quotaVars, windowHist >>

\* ------------------------------------------------------------ one request at a time
Next ==
  \/ Tick
  \/ \E t \in SeqThreads, kw \in Keywords : StartTrends(t, kw)
  \/ \E t \in SeqThreads, ks \in BatchInputs : StartBatch(t, ks)
  \/ \E t \in SeqThreads : rate_limit_check(t)
  \/ \E t \in SeqThreads : L53(t)
  \/ \E t \in SeqThreads : L56(t)
  \/ \E t \in SeqThreads, o \in FetchOutcomes : L57(t, o)
  \/ \E t \in SeqThreads : TrendsRespond(t)
  \/ \E t \in SeqThreads : L124(t)
  \/ \E t \in SeqThreads : L127(t)
  \/ \E t \in SeqThreads : L133(t)
  \/ \E t \in SeqThreads : L145(t)
  \/ \E t \in SeqThreads : home(t)
  \/ \E t \in SeqThreads : health(t)
  \/ \E t \in SeqThreads : Finish(t)

Spec == Init /\ [][Next]_vars

\* ------------------------------------------------------------ one GET /trends after the other
\* A step of a running get_trends call.
GetTrendsStep(t) ==
  \/ rate_limit_check(t)
  \/ L53(t)
  \/ L56(t)
  \/ \E o \in FetchOutcomes : L57(t, o)

NextTrends ==
  \/ Tick
  \/ \E t \in SeqThreads, kw \in Keywords : StartTrends(t, kw)
  \/ \E t \in SeqThreads : GetTrendsStep(t)
  \/ \E t \in SeqThreads : TrendsRespond(t)
  \/ \E t \in SeqThreads : Finish(t)

\* The worker thread of a request keeps running: time.sleep returns, and the
\* fetcher returns or raises within its timeout (line 59).
SpecTrends ==
  /\ Init
  /\ [][NextTrends]_vars
  /\ WF_vars(\E t \in SeqThreads : GetTrendsStep(t))

\* ------------------------------------------------------------ the analysis of a series
\* interest_df[keyword].tolist(): interest values, of which the model takes a
\* few levels, in series of every length up to MaxSeriesLen, and some longer ones.
Levels == {0, 40, 50, 60}

LongSeries ==
  { << 10, 20, 30, 40, 50, 60, 70, 80 >>,
    << 50, 50, 50, 50, 50, 50, 50, 50 >>,
    << 10, 20, 30 >>,
    << 100, 100, 40, 40, 40, 40, 50, 50, 50, 50 >>,
    << 0, 7, 100, 100, 100, 100, 79, 80, 80, 80 >>,
    << 1, 1, 2 >>,
    << 0, 0, 0, 0, 0, 0, 0, 0 >>,
    << 0, 0, 0, 0, 0, 0, 0, 1 >>,
    << 50, 50, 50, 50, 0, 0, 0, 0 >>,
    << 100, 100, 100, 100, 100, 100, 100, 100, 100 >> }

SeriesSpace == LongSeries \cup UNION { [1 .. n -> Levels] : n \in 1 .. MaxSeriesLen }

AnalysisOutcomes ==
  { [kind |-> "data", series |-> s, msg |-> << >>] : s \in SeriesSpace }
    \cup { [kind |-> "empty", series |-> << >>, msg |-> << >>] }

\* The first request of the process, a GET /trends, was admitted by
\* rate_limit_check and is about to call the fetcher.
InitAnalysis ==
  /\ now = LateStart + Secs(AdmitDelayMin)
  /\ last_request_time = 0
  /\ request_count = 1
  /\ pc = [t \in Threads |-> IF t \in SeqThreads THEN "L57" ELSE "idle"]
  /\ current_time = [t \in Threads |-> IF t \in SeqThreads THEN LateStart ELSE 0]
  /\ time_diff = [t \in Threads |-> IF t \in SeqThreads THEN LateStart ELSE 0]
  /\ wait_time = [t \in Threads |-> 0]
  /\ loaded = [t \in Threads |-> 0]
  /\ handler = [t \in Threads |-> IF t \in SeqThreads THEN "trends" ELSE "none"]
  /\ keyword = [t \in Threads |-> IF t \in SeqThreads THEN "a" ELSE ""]
  /\ attempt = [t \in Threads |-> 0]
  /\ ret = [t \in Threads |-> IF t \in SeqThreads THEN Return(<< >>) ELSE NoRet]
  /\ keywords = [t \in Threads |-> << >>]
  /\ keyword_list = [t \in Threads |-> << >>]
  /\ idx = [t \in Threads |-> 0]
  /\ results = [t \in Threads |-> << >>]
  /\ response = [t \in Threads |-> NoResponse]
  /\ didReset = [t \in Threads |-> FALSE]
  /\ entry = [t \in Threads |-> NoEntry]
  /\ rejected = [t \in Threads |-> FALSE]
  /\ allowedInWindow = 1
  /\ rejectedInWindow = FALSE
  /\ fetchesInWindow = 0
  /\ fetchLog = [t \in Threads |-> << >>]
  /\ sleepLog = [t \in Threads |-> << >>]
  /\ lastFetch = [t \in Threads |-> NoFetch]
  /\ started = [t \in Threads |-> IF t \in SeqThreads THEN 1 ELSE 0]
  /\ failures = [t \in Threads |-> 0]
  /\ pacing = [t \in Threads |-> << >>]

NextAnalysis ==
  \/ \E t \in SeqThreads : pc[t] = "L57" /\ \E o \in AnalysisOutcomes : L57(t, o)
  \/ \E t \in SeqThreads : TrendsRespond(t)
  \/ \E t \in SeqThreads : Finish(t)

SpecAnalysis == InitAnalysis /\ [][NextAnalysis]_vars

\* ------------------------------------------------------------ concurrent callers
\* A worker thread enters rate_limit_check for a new request.
ConcCall(t) ==
  /\ pc[t] = "idle"
  /\ now <= MaxClock
  /\ pc' = [pc EXCEPT ![t] = "L26"]
  /\ response' = [response EXCEPT ![t] = NoResponse]
  /\ UNCHANGED << now, quotaVars, rlVars, windowHist, gtVars, ret, batchVars, handler,
                  started, failures >>

\* rate_limit_check is over; what follows it does not touch the quota window.
ConcReturn(t) ==
  /\ pc[t] = "rl_end"
  /\ pc' = [pc EXCEPT ![t] = "idle"]
  /\ response' = [response EXCEPT ![t] = Respond(ret[t])]
  /\ ret' = [ret EXCEPT ![t] = NoRet]
  /\ DropLocals(t)
  /\ UNCHANGED << now, quotaVars, windowHist, gtVars, batchVars, handler, started,
                  failures >>

NextConc ==
  \/ Tick
  \/ \E t \in Threads : ConcCall(t)
  \/ \E t \in Threads : rate_limit_check(t)
  \/ \E t \in Threads : ConcReturn(t)

SpecConc == Init /\ [][NextConc]_vars

\* C1: the read-check-increment of the quota window is atomic for concurrent
\* callers: between two window resets no more than REQUESTS_PER_HOUR calls are
\* allowed, and request_count never exceeds REQUESTS_PER_HOUR.
C1_AtomicAdmission ==
  /\ allowedInWindow <= REQUESTS_PER_HOUR
  /\ request_count <= REQUESTS_PER_HOUR

\* ------------------------------------------------------------ the claims
\* Time since the window start, as the thread's last rate_limit_check found it.
Elapsed(t) == current_time[t] - entry[t].start

\* The thread's rate_limit_check has read the clock and the window start.
Checking(t) == pc[t] \in {"L29", "L30", "L31", "L33", "L34", "L40", "L40w", "L41", "rl_end"}

Failed(k) == k \in {"throttled", "transient"}

\* C2: in every state reached by rate_limit_check calls made one after the
\* other at non-decreasing clock values, allowed, rejected or resetting,
\* request_count lies between 0 and REQUESTS_PER_HOUR.
C2_CountWithinCapacity ==
  /\ request_count >= 0
  /\ request_count <= REQUESTS_PER_HOUR

\* A call was rejected with the window full.
C2_Witness ==
  \E t \in Threads :
    pc[t] = "rl_end" /\ rejected[t] /\ request_count = REQUESTS_PER_HOUR

\* C3: of the calls made one after the other within one window, the first
\* REQUESTS_PER_HOUR are all allowed and request_count is their number: no call
\* is rejected before REQUESTS_PER_HOUR calls were allowed, and request_count
\* equals the number of calls allowed in the window.
C3_FirstCallsAllowed ==
  /\ request_count = allowedInWindow
  /\ ~rejectedInWindow => allowedInWindow <= REQUESTS_PER_HOUR
  /\ rejectedInWindow => allowedInWindow >= REQUESTS_PER_HOUR

\* Three calls in a window that began empty, all of them allowed.
C3_Witness ==
  \E t \in Threads :
    /\ pc[t] = "rl_end" /\ ~rejected[t]
    /\ started[t] = 3
    /\ allowedInWindow = 3 /\ request_count = 3 /\ ~rejectedInWindow

\* C4, as claimed: a call that finds the window full and not elapsed (at most
\* 3600 s since its start) is rejected with a wait of 3600 s minus the elapsed
\* time, and that wait is greater than 0.
C4_RetryAfterPositive ==
  \A t \in Threads :
    (pc[t] = "rl_end" /\ entry[t].count = REQUESTS_PER_HOUR
       /\ Elapsed(t) <= Secs(3600))
    => /\ rejected[t]
       /\ ret[t].kind = "raise" /\ ret[t].status = 429
       /\ wait_time[t] = Secs(3600) - Elapsed(t)
       /\ wait_time[t] > 0

\* C4, amended: the wait is greater than 0 when less than 3600 s have elapsed
\* and exactly 0 when exactly 3600 s have elapsed.
C4_RetryAfterNotNegative ==
  \A t \in Threads :
    (pc[t] = "rl_end" /\ entry[t].count = REQUESTS_PER_HOUR
       /\ Elapsed(t) <= Secs(3600))
    => /\ rejected[t]
       /\ ret[t].kind = "raise" /\ ret[t].status = 429
       /\ wait_time[t] = Secs(3600) - Elapsed(t)
       /\ wait_time[t] >= 0
       /\ (wait_time[t] > 0) <=> (Elapsed(t) < Secs(3600))

\* A full window, exactly 3600 s old: rejected with a wait of 0.
C4_Witness ==
  \E t \in Threads :
    /\ pc[t] = "rl_end" /\ rejected[t]
    /\ entry[t].count = REQUESTS_PER_HOUR
    /\ Elapsed(t) = Secs(3600)
    /\ wait_time[t] = 0

\* C5: the window is reset exactly when more than 3600 s have elapsed since its
\* start.  Such a call has request_count at 0 and last_request_time at its clock
\* reading when it reaches the capacity check, is allowed and leaves
\* request_count at 1; a call made with at most 3600 s elapsed never changes
\* last_request_time and never lowers request_count.
C5_ResetExactlyWhenElapsed ==
  \A t \in Threads :
    /\ (pc[t] = "L33" /\ Elapsed(t) > Secs(3600))
       => (didReset[t] /\ request_count = 0 /\ last_request_time = current_time[t])
    /\ (pc[t] = "rl_end" /\ Elapsed(t) > Secs(3600))
       => /\ didReset[t] /\ ~rejected[t] /\ ret[t].kind = "return"
          /\ request_count = 1
          /\ last_request_time = current_time[t]
    /\ (Checking(t) /\ Elapsed(t) <= Secs(3600))
       => /\ ~didReset[t]
          /\ last_request_time = entry[t].start
          /\ request_count >= entry[t].count

\* A call after a full window ran out: allowed, and the count is 1.
C5_Witness ==
  \E t \in Threads :
    /\ pc[t] = "rl_end" /\ didReset[t]
    /\ entry[t].count = REQUESTS_PER_HOUR
    /\ request_count = 1 /\ ret[t].kind = "return"

\* C6: a request rejected by rate_limit_check never reaches upstream and is not
\* retried: get_trends makes no fetcher invocation and no cooldown sleep for
\* it, the rejected call leaves request_count and last_request_time as it
\* found them, and the caller receives the 429 with the wait time.
C6_RejectedNeverFetches ==
  \A t \in Threads :
    rejected[t]
    => /\ pc[t] \in {"rl_end", "gt_end", "done"}
       /\ fetchLog[t] = << >> /\ sleepLog[t] = << >> /\ lastFetch[t].kind = "none"
       /\ request_count = entry[t].count
       /\ last_request_time = entry[t].start
       /\ ret[t].kind = "raise" /\ ret[t].status = 429
       /\ ret[t].detail.text = RateLimitText
       /\ ret[t].detail.args = << IntSeconds(Secs(3600) - Elapsed(t)) >>
       /\ (pc[t] = "done" /\ handler[t] = "trends")
          => /\ response[t].kind = "error" /\ response[t].status = 429
             /\ response[t].detail = ret[t].detail

\* GET /trends answered with the rejection of rate_limit_check.
C6_Witness ==
  \E t \in Threads :
    /\ pc[t] = "done" /\ handler[t] = "trends" /\ rejected[t]
    /\ response[t].status = 429
    /\ response[t].detail.text = RateLimitText

\* C7: one get_trends call invokes the fetcher once per attempt and at most 3
\* times, and never again after an invocation that delivered data or an empty
\* frame.
C7_OneFetchPerAttempt ==
  \A t \in Threads :
    /\ Len(fetchLog[t]) <= 3
    /\ \A i \in 1 .. Len(fetchLog[t]) - 1 : Failed(fetchLog[t][i])
    /\ pc[t] \in {"L56", "L57"}
       => /\ Len(fetchLog[t]) = attempt[t]
          /\ \A i \in 1 .. Len(fetchLog[t]) : Failed(fetchLog[t][i])
    /\ (pc[t] = "gt_end" /\ ~rejected[t]) => Len(fetchLog[t]) = attempt[t] + 1

\* The third invocation was the first that did not fail.
C7_Witness ==
  \E t \in Threads :
    /\ pc[t] = "gt_end"
    /\ Len(fetchLog[t]) = 3
    /\ ~Failed(fetchLog[t][3])

\* C8: throttled on all 3 attempts, get_trends sleeps 30 s after attempts 1
\* and 2 only and raises 429; failing otherwise on all 3 attempts, it sleeps
\* 5 s after attempts 1 and 2 only and raises 500 with the message of the
\* third failure.
C8_ExhaustedRetries ==
  \A t \in Threads :
    pc[t] = "gt_end"
    => /\ fetchLog[t] = << "throttled", "throttled", "throttled" >>
          => /\ sleepLog[t] = << [after |-> 0, ticks |-> Secs(30)],
                                 [after |-> 1, ticks |-> Secs(30)] >>
             /\ ret[t].kind = "raise" /\ ret[t].status = 429
             /\ ret[t].detail.text = UpstreamText
       /\ fetchLog[t] = << "transient", "transient", "transient" >>
          => /\ sleepLog[t] = << [after |-> 0, ticks |-> Secs(5)],
                                 [after |-> 1, ticks |-> Secs(5)] >>
             /\ ret[t].kind = "raise" /\ ret[t].status = 500
             /\ ret[t].detail.text = lastFetch[t].msg
             /\ lastFetch[t].kind = "error"

\* Three failures that were not throttling: a 500.
C8_Witness ==
  \E t \in Threads :
    /\ pc[t] = "gt_end"
    /\ fetchLog[t] = << "transient", "transient", "transient" >>
    /\ ret[t].status = 500

\* C9: a 429 from the get_trends call of the keyword at position k (from 0)
\* ends the batch at once: no later keyword is admitted or fetched, and the
\* answer is a partial result with completed = k, total = the length of the
\* truncated list, failed_on = that keyword and the k results gathered, in the
\* order of the keywords.
C9_PartialOnRateLimit ==
  \A t \in Threads :
    (pc[t] = "done" /\ handler[t] = "batch"
       /\ ret[t].kind = "raise" /\ ret[t].status = 429)
    => /\ response[t].kind = "ok"
       /\ response[t].body.partial = TRUE
       /\ response[t].body.completed = idx[t]
       /\ response[t].body.total = Len(keyword_list[t])
       /\ idx[t] < Len(keyword_list[t])
       /\ response[t].body.failed_on = << keyword_list[t][idx[t] + 1] >>
       /\ response[t].body.results = results[t]
       /\ Len(results[t]) = idx[t]
       /\ \A j \in 1 .. idx[t] : results[t][j].keyword = keyword_list[t][j]
       /\ started[t] = idx[t] + 1

\* Three keywords, the second rejected by rate_limit_check.
C9_Witness ==
  \E t \in Threads :
    /\ pc[t] = "done" /\ handler[t] = "batch" /\ rejected[t]
    /\ ret[t].kind = "raise" /\ ret[t].status = 429
    /\ Len(keyword_list[t]) = 3 /\ idx[t] = 1
    /\ response[t].kind = "ok"
    /\ response[t].body.partial = TRUE
    /\ response[t].body.completed = 1

\* C10: a failure of a batch item that is no 429 (the 500 of get_trends) is the
\* outcome of the whole batch: the caller receives that failure and no batch
\* result, and no later keyword is processed.
C10_OtherFailurePropagates ==
  \A t \in Threads :
    (pc[t] = "done" /\ handler[t] = "batch"
       /\ ret[t].kind = "raise" /\ ret[t].status # 429)
    => /\ response[t].kind = "error"
       /\ response[t].status = 500
       /\ response[t].status = ret[t].status
       /\ response[t].detail = ret[t].detail
       /\ response[t].body = << >>
       /\ started[t] = idx[t] + 1

\* The second of three keywords failed with a 500; the first result is lost.
C10_Witness ==
  \E t \in Threads :
    /\ pc[t] = "done" /\ handler[t] = "batch"
    /\ ret[t].kind = "raise" /\ ret[t].status = 500
    /\ Len(keyword_list[t]) = 3 /\ idx[t] = 1 /\ Len(results[t]) = 1
    /\ response[t].kind = "error"

\* The thread is inside a get_trends call.
InGetTrends(t) ==
  pc[t] \in {"L26", "L27", "L29", "L30", "L31", "L33", "L34", "L40", "L40w", "L41",
             "rl_end", "L56", "L57", "gt_end"}

\* C11: get_trends_batch cuts the keyword list to its first 3 entries before it
\* processes any: no get_trends call is made for a later keyword and total is
\* the smaller of the input length and 3; when every item of the cut list
\* succeeded the answer has partial = false and completed = total = the number
\* of results; and every batch answer has completed = the length of results,
\* at most total.
C11_TruncatedAndCounted ==
  \A t \in Threads :
    handler[t] = "batch"
    => /\ Len(keyword_list[t]) = (IF Len(keywords[t]) < 3 THEN Len(keywords[t]) ELSE 3)
       /\ started[t] <= 3
       /\ InGetTrends(t)
          => /\ idx[t] + 1 <= 3
             /\ idx[t] + 1 <= Len(keywords[t])
             /\ keyword[t] = Strip(keywords[t][idx[t] + 1])
       /\ (pc[t] = "done" /\ response[t].kind = "ok")
          => /\ response[t].body.completed = Len(response[t].body.results)
             /\ response[t].body.completed <= response[t].body.total
             /\ response[t].body.total
                  = (IF Len(keywords[t]) < 3 THEN Len(keywords[t]) ELSE 3)
             /\ response[t].body.partial = FALSE
                => response[t].body.completed = response[t].body.total
             /\ Len(results[t]) = Len(keyword_list[t])
                => /\ response[t].body.partial = FALSE
                   /\ response[t].body.completed = response[t].body.total
                   /\ response[t].body.completed = Len(results[t])

\* Four keywords were given; three were processed and all succeeded.
C11_Witness ==
  \E t \in Threads :
    /\ pc[t] = "done" /\ handler[t] = "batch"
    /\ Len(keywords[t]) = 4
    /\ response[t].kind = "ok" /\ response[t].body.partial = FALSE
    /\ response[t].body.completed = 3 /\ response[t].body.total = 3

TrendLabels == {"rising", "falling", "stable", "insufficient_data", "no_data"}

\* The get_trends call of the thread ended with a result or with a 429 or 500.
TypedOutcome(t) ==
  \/ /\ ret[t].kind = "return"
     /\ ret[t].value # NoneResult
     /\ ret[t].value.keyword = keyword[t]
     /\ ret[t].value.trend_direction \in TrendLabels
     /\ fetchLog[t] # << >>
     /\ ~Failed(fetchLog[t][Len(fetchLog[t])])
  \/ /\ ret[t].kind = "raise"
     /\ ret[t].status \in {429, 500}
     /\ rejected[t] \/ (Len(fetchLog[t]) = 3 /\ Failed(fetchLog[t][3]))

\* C12: every get_trends call ends, whatever the fetcher does and whatever the
\* quota window holds, and it ends with a result, with a 429 or with a 500:
\* never by leaving the retry loop without a value, and never with a result
\* when its last attempt failed.
C12_EndsTyped ==
  /\ [](\A t \in SeqThreads : pc[t] = "gt_end" => TypedOutcome(t))
  /\ \A t \in SeqThreads : (pc[t] = "L26") ~> (pc[t] = "gt_end")

\* Three attempts failed and the call ended with the 500.
C12_Witness ==
  \E t \in Threads :
    /\ pc[t] = "gt_end" /\ handler[t] = "trends"
    /\ attempt[t] = 2 /\ Len(fetchLog[t]) = 3
    /\ ret[t].kind = "raise" /\ ret[t].status = 500

\* C13: a fetcher invocation that succeeds without a series for the keyword is
\* no failure: get_trends returns on that attempt, without another attempt and
\* without a cooldown after it, a result with trend_direction = no_data, the
\* three scores 0 and no data points; no 429 and no 500 is raised.
C13_EmptyIsNoData ==
  \A t \in Threads :
    ((pc[t] = "gt_end" \/ (pc[t] = "done" /\ handler[t] = "trends"))
       /\ lastFetch[t].kind = "empty")
    => /\ ret[t].kind = "return"
       /\ ret[t].value.keyword = keyword[t]
       /\ ret[t].value.trend_direction = "no_data"
       /\ ret[t].value.current_score = 0
       /\ ret[t].value.average_score = 0
       /\ ret[t].value.peak_score = 0
       /\ ret[t].value.data_points = << >>
       /\ Len(fetchLog[t]) = attempt[t] + 1
       /\ fetchLog[t][Len(fetchLog[t])] = "empty"
       /\ Len(sleepLog[t]) = attempt[t]
       /\ \A i \in 1 .. Len(sleepLog[t]) : sleepLog[t][i].after = i - 1
       /\ pc[t] = "done"
          => /\ response[t].kind = "ok" /\ response[t].status = 200
             /\ response[t].body = ret[t].value

\* The second attempt, after a failed one, found nothing; GET /trends answered.
C13_Witness ==
  \E t \in Threads :
    /\ pc[t] = "done" /\ handler[t] = "trends"
    /\ lastFetch[t].kind = "empty" /\ attempt[t] = 1
    /\ response[t].kind = "ok"
    /\ response[t].body.trend_direction = "no_data"

StatusHandlers == {"home", "health"}

\* C14: GET / and GET /health only read the quota window: a step of either
\* handler, at any clock value (also after the window ran out) and anywhere
\* between rate_limit_check calls, leaves request_count and last_request_time
\* as they were, and so leaves what the next rate_limit_check call will do.
C14_StatusReadOnly ==
  [][(\E t \in Threads : handler[t] \in StatusHandlers \/ handler'[t] \in StatusHandlers)
       => UNCHANGED << quotaVars, windowHist >>]_vars

\* A status request after a rejected call, with the full window more than
\* 3600 s old: the count is still 60.
C14_Witness ==
  \E t \in Threads :
    /\ pc[t] = "done" /\ handler[t] \in StatusHandlers
    /\ now - last_request_time > Secs(3600)
    /\ rejectedInWindow
    /\ request_count = 60
    /\ response[t].body.requests_used = 60

\* The thread's get_trends call returned what it made of a fetcher result.
Analyzed(t) ==
  /\ pc[t] \in {"gt_end", "done"}
  /\ lastFetch[t].kind \in {"data", "empty"}

\* The sum of the n entries of s that end at position e.
RECURSIVE SumBack(_, _, _)
SumBack(s, e, n) == IF n = 0 THEN 0 ELSE s[e] + SumBack(s, e - 1, n - 1)

\* C15: the trend label of a series of integers in 0..100: no_data when the
\* fetcher delivered nothing, insufficient_data for 1 to 7 points, and for 8 or
\* more points, with the mean of the last 4 points and the mean of the 4 points
\* before them, rising iff the recent mean is above 1.2 times the previous one,
\* falling iff it is below 0.8 times the previous one, stable otherwise;
\* 10..80 in steps of 10 is rising and eight equal values are stable.
C15_TrendClassification ==
  \A t \in Threads :
    Analyzed(t)
    => LET s == lastFetch[t].series
           n == Len(s)
           label == ret[t].value.trend_direction
       IN  /\ ret[t].kind = "return"
           /\ label \in {"rising", "falling", "stable", "insufficient_data", "no_data"}
           /\ (label = "no_data") <=> (lastFetch[t].kind = "empty")
           /\ (label = "insufficient_data") <=> (n >= 1 /\ n <= 7)
           /\ n >= 8
              => LET recent4 == SumBack(s, n, 4)
                     previous4 == SumBack(s, n - 4, 4)
                 IN  /\ (label = "rising") <=> (10 * recent4 > 12 * previous4)
                     /\ (label = "falling") <=> (10 * recent4 < 8 * previous4)
                     /\ (label = "stable")
                          <=> (10 * recent4 <= 12 * previous4 /\ 10 * recent4 >= 8 * previous4)
           /\ s = << 10, 20, 30, 40, 50, 60, 70, 80 >> => label = "rising"
           /\ (n = 8 /\ \A i \in 1 .. n : s[i] = s[1]) => label = "stable"

\* Recent mean exactly 1.2 times the previous mean: stable.
C15_Witness ==
  \E t \in Threads :
    /\ pc[t] = "gt_end"
    /\ lastFetch[t].series = << 50, 50, 50, 50, 60, 60, 60, 60 >>
    /\ ret[t].value.trend_direction = "stable"

\* C16: the scores of a non-empty series of integers in 0..100, of any length:
\* current_score is the last element, average_score the mean of all elements
\* rounded down, peak_score the largest element, and data_points the series as
\* it came; 10, 20, 30 gives 30, 20 and 30.
C16_Scores ==
  \A t \in Threads :
    (Analyzed(t) /\ lastFetch[t].kind = "data")
    => LET s == lastFetch[t].series
           n == Len(s)
           v == ret[t].value
       IN  /\ ret[t].kind = "return"
           /\ n >= 1
           /\ v.current_score = s[n]
           /\ v.average_score * n <= SumBack(s, n, n)
           /\ (v.average_score + 1) * n > SumBack(s, n, n)
           /\ \E i \in 1 .. n : v.peak_score = s[i]
           /\ \A i \in 1 .. n : v.peak_score >= s[i]
           /\ v.data_points = s
           /\ s = << 10, 20, 30 >>
              => (v.current_score = 30 /\ v.average_score = 20 /\ v.peak_score = 30)

\* A series shorter than 8 points whose mean is no integer.
C16_Witness ==
  \E t \in Threads :
    /\ pc[t] = "gt_end"
    /\ lastFetch[t].series = << 40, 60, 50, 40, 60, 50, 60 >>
    /\ ret[t].value.average_score = 51
    /\ ret[t].value.peak_score = 60
    /\ ret[t].value.current_score = 60
    /\ ret[t].value.trend_direction = "insufficient_data"

\* C17: with the fetcher throttled on attempts 1 and 2 and delivering a series
\* on attempt 3, get_trends returns the result for that series and no failure,
\* after exactly 3 fetcher invocations and exactly two sleeps of 30 s, one after
\* each throttled attempt and none after the third.
C17_ThrottledTwiceThenSeries ==
  \A t \in Threads :
    (pc[t] = "gt_end" /\ fetchLog[t] = << "throttled", "throttled", "data" >>)
    => /\ ret[t].kind = "return"
       /\ ret[t].value.keyword = keyword[t]
       /\ ret[t].value.data_points = lastFetch[t].series
       /\ lastFetch[t].kind = "data"
       /\ attempt[t] = 2
       /\ sleepLog[t] = << [after |-> 0, ticks |-> Secs(30)],
                           [after |-> 1, ticks |-> Secs(30)] >>

\* Throttled twice, then the series 10, 20, 30 came back.
C17_Witness ==
  \E t \in Threads :
    /\ pc[t] = "gt_end"
    /\ fetchLog[t] = << "throttled", "throttled", "data" >>
    /\ ret[t].kind = "return"
    /\ ret[t].value.data_points = << 10, 20, 30 >>
    /\ Len(sleepLog[t]) = 2

\* C18: get_trends_batch processes its keywords one at a time, in the order
\* given: the get_trends call of a keyword starts only when the results of all
\* keywords before it are appended and one pacing sleep has followed each of
\* them; a pacing sleep follows every item that succeeded except the last of
\* the list, and none follows the last item or an item that failed.
C18_SequentialPacing ==
  \A t \in Threads :
    handler[t] = "batch"
    => /\ Len(results[t]) = idx[t]
       /\ idx[t] <= Len(keyword_list[t])
       /\ \A j \in 1 .. Len(results[t]) : results[t][j].keyword = keyword_list[t][j]
       /\ started[t] <= idx[t] + 1
       /\ InGetTrends(t)
          => /\ started[t] = idx[t] + 1
             /\ keyword[t] = keyword_list[t][idx[t] + 1]
             /\ Len(pacing[t]) = idx[t]
       /\ \A i \in 1 .. Len(pacing[t]) : pacing[t][i] = i - 1
       /\ Len(pacing[t])
            = (IF idx[t] < Len(keyword_list[t]) THEN idx[t] ELSE Len(keyword_list[t]) - 1)

\* Three keywords succeeded: a sleep after the first and after the second only.
C18_Witness ==
  \E t \in Threads :
    /\ pc[t] = "done" /\ handler[t] = "batch"
    /\ Len(keyword_list[t]) = 3 /\ Len(results[t]) = 3
    /\ pacing[t] = << 0, 1 >>
    /\ response[t].kind = "ok"

\* The thread's get_trends call was let through by rate_limit_check.
Admitted(t) == pc[t] \in {"L41", "L56", "L57"} \/ (pc[t] \in {"rl_end", "gt_end"} /\ ~rejected[t])

\* C19: a get_trends call that rate_limit_check lets through takes one unit of
\* the quota, however many attempts it makes: request_count is 1 above what the
\* call found (0 after a reset) from line 40 to the end of the call, through
\* every attempt, sleep, result and failure, so the fetcher invocations of one
\* window number at most 3 for each call allowed in it, 3 * 60 at most.
C19_OneUnitPerRequest ==
  /\ fetchesInWindow <= 3 * allowedInWindow
  /\ fetchesInWindow <= 3 * 60
  /\ \A t \in Threads :
       Admitted(t)
       => /\ request_count = (IF didReset[t] THEN 0 ELSE entry[t].count) + 1
          /\ Len(fetchLog[t]) <= 3

\* The 60th call of a window whose calls all made 3 attempts made 3 as well.
C19_Witness ==
  \E t \in Threads :
    /\ pc[t] = "gt_end" /\ ~rejected[t]
    /\ entry[t].count = 59 /\ request_count = 60
    /\ Len(fetchLog[t]) = 3
    /\ fetchesInWindow = 180

\* C20: when all 3 attempts of a get_trends call fail, in whatever mix, the
\* last attempt alone decides the failure raised: 429 when it was throttled,
\* 500 with its message otherwise; and the sleep after the first and after the
\* second attempt is 30 s when that attempt was throttled and 5 s otherwise.
C20_LastAttemptDecides ==
  \A t \in Threads :
    (pc[t] = "gt_end" /\ Len(fetchLog[t]) = 3
       /\ \A i \in 1 .. 3 : Failed(fetchLog[t][i]))
    => /\ ret[t].kind = "raise"
       /\ fetchLog[t][3] = "throttled"
          => (ret[t].status = 429 /\ ret[t].detail.text = UpstreamText)
       /\ fetchLog[t][3] = "transient"
          => (ret[t].status = 500 /\ ret[t].detail.text = lastFetch[t].msg)
       /\ Len(sleepLog[t]) = 2
       /\ \A i \in 1 .. 2 :
            /\ sleepLog[t][i].after = i - 1
            /\ sleepLog[t][i].ticks
                 = (IF fetchLog[t][i] = "throttled" THEN Secs(30) ELSE Secs(5))

\* Two other failures, then throttled: a 429 after sleeps of 5 s and 5 s.
C20_Witness ==
  \E t \in Threads :
    /\ pc[t] = "gt_end"
    /\ fetchLog[t] = << "transient", "transient", "throttled" >>
    /\ ret[t].kind = "raise" /\ ret[t].status = 429
    /\ sleepLog[t][1].ticks = Secs(5) /\ sleepLog[t][2].ticks = Secs(5)

====
